---- MODULE Spec2Model ----
(***************************************************************************)
(* State-machine model of the LeXFin server (server/routes.ts and the      *)
(* in-memory storage it uses): the document processing run, the chat turn  *)
(* run and the WebSocket notification bus.                                 *)
(*                                                                         *)
(* Two revisions of the routes module are in the repository:               *)
(*   "routes.ts"  src/server/routes.ts   (Gemini call with template        *)
(*                                        fallback, bare client.send)      *)
(*   "part_009"   src/unnamed/part_009   (category guard, template-only    *)
(*                                        analysis, guarded client.send)   *)
(* The variable impl selects the revision; it is chosen in Init and never  *)
(* changes.                                                                *)
(*                                                                         *)
(* Every awaited call (an IStorage method, the Gemini client) either       *)
(* returns or rejects, and client.send either returns or throws.  A        *)
(* rejected storage call leaves the store as it was.                       *)
(***************************************************************************)
EXTENDS Integers, Sequences, FiniteSets, Bags, TLC

\* ------------------------------------------------------------------ bounds
MaxDocs == 2
MaxTurns == 2
MaxConns == 2
MaxConvs == 2
\* joint bound on what one behaviour holds, see Load
MaxLoad == 6
\* the same bound for the behaviours that also serve the read requests
MaxReadLoad == 4
MaxReadConns == 1

\* ------------------------------------------------------- program constants
Impls == {"routes.ts", "part_009"}
Users == {1, 2}
Conns == 1..MaxConns
\* a category check that lets one more value through
CategoriesWithInvoice == {"forensic", "tax", "legal", "invoice"}
Categories == {"forensic", "tax", "legal"}
\* category values a request body may carry ("" stands for a missing field)
CategoryInputs == {"forensic", "tax", "legal", "invoice", ""}
\* message bodies a client may post: two texts, a missing/empty content and a
\* content that is not a string
ContentInputs == {"What are my tax deductions?", "hello", "<empty>", "<not a string>"}
\* a content check that lets every body through
ValidContentsUnchecked == ContentInputs
ValidContents == {"What are my tax deductions?", "hello"}
Apology == "I apologize, but I encountered an error processing your request. Please try again."
NoUser == 0
NoDocument == 0
NoMessage == 0
NoConversation == 0
\* what parseInt returns for a path parameter that is not a number
NaN == -1
NullResult == "null"

VARIABLES
    impl,          \* which revision of the routes module runs
    documents,     \* MemStorage.documents: id -> Document (ids are 1..Len)
    activities,    \* MemStorage.activities as a bag of Activity records
    conversations, \* MemStorage.conversations
    messages,      \* MemStorage.messages
    clock,         \* the value new Date() returns next
    runs,          \* per Document: position of its processDocumentAsync run
    turns,         \* per Message: position of its generateAIResponse run
    activeReqs,    \* per user: GET /api/conversations/active requests that
                   \* found no open Conversation and have not yet created one
    wssClients,    \* wss.clients in insertion order
    ws,            \* per connection: readyState, userId, sessionId
    lastBroadcast, \* the broadcastToUser call made by the last step, if any
    res,           \* the HTTP response sent by the last step, if any
    call           \* a function of the module called on its own: its
                   \* arguments and, once it has returned, what it returned

vars == <<impl, documents, activities, conversations, messages, clock,
          runs, turns, activeReqs, wssClients, ws, lastBroadcast, res,
          call>>

storeVars == <<documents, activities, conversations, messages, clock>>
chatVars == <<conversations, messages, clock, turns>>
busVars == <<wssClients, ws>>

\* ----------------------------------------------------------------- helpers
FreshWs == [readyState |-> "ABSENT", userId |-> NoUser, sessionId |-> FALSE]

NoBroadcast ==
    [target |-> NoUser, event |-> [type |-> "none"], recipients |-> {},
     failed |-> {}, threw |-> FALSE]

\* no request was answered by the last step
NoResponse == [route |-> "none", status |-> 0, body |-> [text |-> ""]]

\* No function is being called on its own.
NoCall == [fn |-> "none"]

\* res.status(status).send(text)
Send(route, status, text) ==
    [route |-> route, status |-> status, body |-> [text |-> text]]

\* res.status(status).json(body)
Json(route, status, body) == [route |-> route, status |-> status, body |-> body]

\* --------------------------------------------------------------- storage
\* a createDocument whose returned Document already shows the first write of
\* the run
createDocumentProcessing(userId, category) ==
    Append(documents, [userId |-> userId, category |-> category,
                       status |-> "processing", analysisResult |-> NullResult])

\* MemStorage.createDocument: status is always "pending", no analysisResult
createDocument(userId, category) ==
    Append(documents, [userId |-> userId, category |-> category,
                       status |-> "pending", analysisResult |-> NullResult])

\* an update that is applied to every stored Document
updateDocumentAll(id, updates) ==
    [d \in DOMAIN documents |->
        [f \in DOMAIN documents[d] |->
            IF f \in DOMAIN updates THEN updates[f] ELSE documents[d][f]]]

\* MemStorage.updateDocument: { ...document, ...updates }
updateDocument(id, updates) ==
    [documents EXCEPT ![id] =
        [f \in DOMAIN documents[id] |->
            IF f \in DOMAIN updates THEN updates[f] ELSE documents[id][f]]]

\* a store that keeps only the Activity written last
createActivityReplacing(userId, type, status, relatedDocumentId) ==
    SetToBag({[userId |-> userId, type |-> type, status |-> status,
               relatedDocumentId |-> relatedDocumentId]})

\* MemStorage.createActivity; the id and the timestamp it adds are not kept,
\* two Activities with the same content are two copies in the bag
createActivity(userId, type, status, relatedDocumentId) ==
    activities (+) SetToBag({[userId |-> userId, type |-> type,
                              status |-> status,
                              relatedDocumentId |-> relatedDocumentId]})

\* MemStorage.createConversation: lastMessageAt = startedAt = now, closed = false
createConversation(userId, now) ==
    Append(conversations, [userId |-> userId, lastMessageAt |-> now,
                           closed |-> FALSE])

\* MemStorage.getActiveConversation: of the user's Conversations that are not
\* closed, the one with the latest lastMessageAt (the first stored one among
\* equals), NoConversation when there is none
OpenConversations(userId) ==
    {c \in DOMAIN conversations :
        conversations[c].userId = userId /\ ~conversations[c].closed}

getActiveConversation(userId) ==
    IF OpenConversations(userId) = {} THEN NoConversation
    ELSE CHOOSE c \in OpenConversations(userId) :
            \A o \in OpenConversations(userId) :
                \/ conversations[c].lastMessageAt > conversations[o].lastMessageAt
                \/ /\ conversations[c].lastMessageAt = conversations[o].lastMessageAt
                   /\ c <= o

\* MemStorage.updateConversation(id, { lastMessageAt: new Date() })
updateConversation(id, now) ==
    [conversations EXCEPT ![id].lastMessageAt = now]

\* MemStorage.createMessage; replyTo is not a field of the program: it names
\* the user Message whose generateAIResponse run created this one
createMessage(conversationId, sender, content, reasoningLog, replyTo, now) ==
    Append(messages, [conversationId |-> conversationId, sender |-> sender,
                      content |-> content, reasoningLog |-> reasoningLog,
                      timestamp |-> now, replyTo |-> replyTo])

\* ------------------------------------------------------------- work load
NumConnected == Cardinality({c \in Conns : ws[c].readyState # "ABSENT"})

NumUserMessages ==
    Cardinality({m \in DOMAIN messages : messages[m].sender = "user"})

\* requests for the active Conversation that are about to create one
PendingCreates == activeReqs[1] + activeReqs[2]

\* a Document weighs 3, a Conversation (stored or about to be created) and a
\* chat turn 2, a connected socket 1
Load ==
    3 * Len(documents) + 2 * (Len(conversations) + PendingCreates)
        + 2 * NumUserMessages + NumConnected

\* ------------------------------------------------------ notification bus
\* a test that forgets to compare the user id
BroadcastMatchesAnyUser(client, userId) == client.readyState = "OPEN"

\* the test of broadcastToUser on one client
BroadcastMatches(client, userId) ==
    client.readyState = "OPEN" /\ client.userId = userId

\* positions of wss.clients that pass the test, in iteration order
MatchingPositions(userId) ==
    {i \in DOMAIN wssClients : BroadcastMatches(ws[wssClients[i]], userId)}

\* routes.ts: client.send is not guarded, so the first send that throws ends
\* the forEach and the exception leaves broadcastToUser.
\* part_009: each send is inside its own try/catch, the loop goes on.
\* sendThrows is the set of positions whose send throws.
BroadcastResult(userId, event, sendThrows) ==
    LET match == MatchingPositions(userId)
        firstThrow == IF sendThrows = {} THEN 0
                      ELSE CHOOSE i \in sendThrows : \A j \in sendThrows : i <= j
        reached == IF impl = "routes.ts" /\ sendThrows # {}
                   THEN {i \in match : i <= firstThrow}
                   ELSE match
    IN  [target |-> userId, event |-> event,
         recipients |-> {wssClients[i] : i \in reached \ sendThrows},
         failed |-> {wssClients[i] : i \in reached \cap sendThrows},
         threw |-> (impl = "routes.ts" /\ sendThrows # {})]

\* the sets of throwing sends one call may meet (routes.ts stops at the first)
ThrowChoices(userId) ==
    {S \in SUBSET MatchingPositions(userId) :
        impl = "routes.ts" => Cardinality(S) <= 1}

Init ==
    /\ impl \in Impls
    /\ documents = <<>>
    /\ activities = EmptyBag
    /\ conversations = <<>>
    /\ messages = <<>>
    /\ clock = 1
    /\ runs = <<>>
    /\ turns = <<>>
    /\ activeReqs = [u \in Users |-> 0]
    /\ wssClients = <<>>
    /\ ws = [c \in Conns |-> FreshWs]
    /\ lastBroadcast = NoBroadcast
    /\ res = NoResponse
    /\ call = NoCall

\* ------------------------------------------------- WebSocket connections
\* wss.on('connection'): a new socket joins wss.clients, not yet authenticated
Connect(c) ==
    /\ ws[c].readyState = "ABSENT"
    /\ Load + 1 <= MaxLoad
    /\ wssClients' = Append(wssClients, c)
    /\ ws' = [ws EXCEPT ![c] = [FreshWs EXCEPT !.readyState = "OPEN"]]
    /\ UNCHANGED <<impl, call, activeReqs, storeVars, runs, turns>>
    /\ lastBroadcast' = NoBroadcast
    /\ res' = NoResponse

\* what ws.on('message') leaves in the socket for one parsed message
OnMessageResult(sock, data) ==
    IF impl = "routes.ts"
    THEN IF data.type = "auth" /\ data.sessionId
         THEN [sock EXCEPT !.sessionId = TRUE, !.userId = data.userId]
         ELSE sock
    ELSE IF data.type = "auth"
         THEN IF data.userId # NoUser
              THEN [sock EXCEPT !.userId = data.userId]
              ELSE IF data.sessionId
                   THEN [sock EXCEPT !.sessionId = TRUE, !.userId = data.userId]
                   ELSE sock
         ELSE sock

\* the JSON messages a client may send
WsMessages ==
    [type : {"auth"}, userId : Users \cup {NoUser}, sessionId : BOOLEAN]
        \cup {[type |-> "other", userId |-> NoUser, sessionId |-> FALSE]}

\* ws.on('message')
OnMessage(c, data) ==
    /\ ws[c].readyState = "OPEN"
    /\ ws' = [ws EXCEPT ![c] = OnMessageResult(ws[c], data)]
    /\ UNCHANGED <<impl, call, activeReqs, storeVars, runs, turns, wssClients>>
    /\ lastBroadcast' = NoBroadcast
    /\ res' = NoResponse

\* the closing handshake starts: the socket is still in wss.clients
Close(c) ==
    /\ ws[c].readyState = "OPEN"
    /\ ws' = [ws EXCEPT ![c].readyState = "CLOSING"]
    /\ UNCHANGED <<impl, call, activeReqs, storeVars, runs, turns, wssClients>>
    /\ lastBroadcast' = NoBroadcast
    /\ res' = NoResponse

\* the socket is closed and leaves wss.clients
Remove(c) ==
    /\ ws[c].readyState = "CLOSING"
    /\ wssClients' = SelectSeq(wssClients, LAMBDA x : x # c)
    /\ ws' = [ws EXCEPT ![c] = FreshWs]
    /\ UNCHANGED <<impl, call, activeReqs, storeVars, runs, turns>>
    /\ lastBroadcast' = NoBroadcast
    /\ res' = NoResponse

\* ------------------------------------------------ POST /api/documents/upload
\* a processDocumentAsync call that has not run yet.  pc and result are the
\* position and the analysisResult local of the call; the other fields are not
\* program state: transitions records the status changes the run has made, ai
\* the outcome of the inner try block around its Gemini call ("failed" when
\* the block threw), threw whether an awaited call outside that block
\* rejected or a send threw, generationFailed whether the
\* template analyzeDocument rejected, and published the status carried by each
\* document_update the run has passed to broadcastToUser.  delivered is kept
\* only for a run that is followed on its own (SpecRuns): the connections each
\* of these events was sent to without the send throwing.
NewRun ==
    [pc |-> "updateProcessing", result |-> NullResult, transitions |-> {},
     ai |-> "none", threw |-> FALSE, generationFailed |-> FALSE,
     published |-> <<>>, delivered |-> <<>>]

\* an upload that hands the Document to processDocumentAsync before the
\* upload Activity is written
UploadRunsFirst(u, hasFile, category, throwAt) ==
    /\ hasFile
    /\ category \in Categories
    /\ throwAt = "none"
    /\ documents' = createDocument(u, category)
    /\ runs' = Append(runs, NewRun)
    /\ res' = Json("upload", 201,
                   [id |-> Len(documents) + 1,
                    document |-> createDocument(u, category)[Len(documents) + 1]])
    /\ UNCHANGED <<impl, call, activeReqs, activities, chatVars, busVars>>
    /\ lastBroadcast' = NoBroadcast

\* The handler up to its response.  throwAt names the awaited call that
\* rejects ("none" when all return).  The request is authenticated as u.
Upload(u, hasFile, category, throwAt) ==
    /\ IF ~hasFile
       THEN \* 400 before anything is stored
            /\ throwAt = "none"
            /\ res' = Send("upload", 400, "No file uploaded")
            /\ UNCHANGED <<documents, activities, runs>>
       ELSE IF category \notin Categories
       THEN /\ throwAt = "none"
            /\ res' = Send("upload", 400, "Invalid category")
            /\ UNCHANGED <<documents, activities, runs>>
       ELSE IF throwAt = "createDocument"
       THEN \* 500, nothing was stored
            /\ res' = Send("upload", 500, "Error uploading document")
            /\ UNCHANGED <<documents, activities, runs>>
       ELSE IF throwAt = "createActivity"
       THEN \* the Document is stored, processDocumentAsync is never called
            /\ documents' = createDocument(u, category)
            /\ runs' = Append(runs, [NewRun EXCEPT !.pc = "none"])
            /\ res' = Send("upload", 500, "Error uploading document")
            /\ UNCHANGED activities
       ELSE /\ documents' = createDocument(u, category)
            /\ activities' = createActivity(u, "upload", "completed",
                                            Len(documents) + 1)
            /\ runs' = Append(runs, NewRun)
            \* res.status(201).json(document): the Document createDocument returned
            /\ res' = Json("upload", 201,
                           [id |-> Len(documents) + 1,
                            document |-> createDocument(u, category)[Len(documents) + 1]])
    /\ UNCHANGED <<impl, call, activeReqs, chatVars, busVars>>
    /\ lastBroadcast' = NoBroadcast

\* ------------------------------------------------------ processDocumentAsync
At(d, pc) == d \in DOMAIN runs /\ runs[d].pc = pc

Goto(d, pc) == runs' = [runs EXCEPT ![d].pc = pc]

\* updateDocument returns: the store changes and the run moves on; the block
\* that declared analysisResult ends with the call, so result is unset.  The
\* transitions field is not program state: it records the status changes this
\* run has made, as <<from, to>> pairs.
Update(d, updates, pc) ==
    /\ documents' = updateDocument(d, updates)
    /\ runs' = [runs EXCEPT ![d].pc = pc,
                            ![d].result = NullResult,
                            ![d].transitions =
                                @ \cup {<<documents[d].status, updates.status>>}]

\* a failure that calls processDocumentAsync again for the same Document
ThrowRestartsRun(d) ==
    runs' = [runs EXCEPT ![d].pc = "updateProcessing", ![d].threw = TRUE,
                         ![d].result = NullResult]

\* an awaited call of the try block rejects: control moves to the catch block
ThrowToCatch(d) ==
    runs' = [runs EXCEPT ![d].pc = "updateFailed", ![d].threw = TRUE,
                         ![d].result = NullResult]

\* an awaited call of the catch block rejects: the promise of the run rejects
ThrowOut(d) == runs' = [runs EXCEPT ![d].pc = "rejected", ![d].threw = TRUE]

\* title prefix chosen from the category, as the Started/Completed activities do
ActivityType(d) == documents[d].category

\* a run that goes on to announce "processing" without persisting it
PD_UpdateProcessingSkipsWrite(d) ==
    /\ At(d, "updateProcessing")
    /\ Goto(d, "activityProcessing")
    /\ UNCHANGED <<impl, call, activeReqs, storeVars, turns, busVars>>
    /\ lastBroadcast' = NoBroadcast
    /\ res' = NoResponse

\* part_009 only: category guard, then updateDocument(status: "processing")
PD_UpdateProcessing(d) ==
    /\ At(d, "updateProcessing")
    /\ IF impl = "part_009" /\ documents[d].category \notin Categories
       THEN /\ ThrowToCatch(d)
            /\ UNCHANGED documents
       ELSE \/ Update(d, [status |-> "processing"], "activityProcessing")
            \/ /\ ThrowToCatch(d)
               /\ UNCHANGED documents
    /\ UNCHANGED <<impl, call, activeReqs, activities, chatVars, busVars>>
    /\ lastBroadcast' = NoBroadcast
    /\ res' = NoResponse

\* createActivity(... status: "processing")
PD_ActivityProcessing(d) ==
    /\ At(d, "activityProcessing")
    /\ \/ /\ activities' = createActivity(documents[d].userId, ActivityType(d),
                                          "processing", d)
          /\ Goto(d, "broadcastProcessing")
       \/ /\ ThrowToCatch(d)
          /\ UNCHANGED activities
    /\ UNCHANGED <<impl, call, activeReqs, documents, chatVars, busVars>>
    /\ lastBroadcast' = NoBroadcast
    /\ res' = NoResponse

\* one broadcastToUser call made by a run: next is the position after a
\* normal return, onThrow the position when the call throws
RunBroadcast(d, event, next, onThrow) ==
    \E S \in ThrowChoices(documents[d].userId) :
        LET b == BroadcastResult(documents[d].userId, event, S)
        IN  /\ lastBroadcast' = b
            /\ runs' = [runs EXCEPT ![d].pc = IF b.threw THEN onThrow ELSE next,
                                    ![d].threw = @ \/ b.threw,
                                    ![d].published = Append(@, event.status),
                                    ![d].delivered =
                                        IF call.fn = "processDocumentAsync"
                                        THEN Append(@, b.recipients)
                                        ELSE @]

DocumentUpdate(d, status) ==
    [type |-> "document_update", id |-> d, status |-> status]

\* broadcastToUser(document.userId, { ...document, status: "processing" })
PD_BroadcastProcessing(d) ==
    /\ At(d, "broadcastProcessing")
    /\ RunBroadcast(d, DocumentUpdate(d, "processing"), "getUser", "updateFailed")
    /\ UNCHANGED <<impl, call, activeReqs, storeVars, turns, busVars>>
    /\ res' = NoResponse

\* getUser(document.userId); part_009 then waits on a timer
PD_GetUser(d) ==
    /\ At(d, "getUser")
    /\ \/ /\ Goto(d, IF impl = "routes.ts" THEN "gemini" ELSE "analyze")
       \/ ThrowToCatch(d)
    /\ UNCHANGED <<impl, call, activeReqs, storeVars, turns, busVars>>
    /\ lastBroadcast' = NoBroadcast
    /\ res' = NoResponse

\* outcomes of analyzeDocumentWithGemini (gemini-api analyzeDocument):
\* parsed JSON of the expected shape, parsed JSON whose risks or
\* recommendations is not an array, the raw text when no JSON could be
\* parsed, or a rejection
GeminiOutcomes == {"parsed", "malformed", "rawText", "throws"}

\* a list of n entries
Items(n) == [i \in 1..n |-> "item"]

\* what analyzeDocumentWithGemini returns when it returns: the fields of the
\* parsed JSON, or the whole response text with no risks and recommendations
GeminiAnalysis(outcome) ==
    IF outcome = "parsed"
    THEN [analysis |-> "analysis", risks |-> Items(3), recommendations |-> Items(3)]
    ELSE [analysis |-> "text", risks |-> <<>>, recommendations |-> <<>>]

\* routes.ts: the analysisResult built from the Gemini analysis
FormatGemini(g) ==
    [analysis |-> <<g.analysis>>,
     recommendations |-> g.recommendations,
     references |-> Items(1),
     lexIntuition |->
        [predictions |-> Items(3),
         risks |-> [i \in DOMAIN g.risks |-> "item"],
         opportunities |->
            SubSeq(g.recommendations, 1,
                   IF Len(g.recommendations) < 2 THEN Len(g.recommendations) ELSE 2)],
     reasoningLog |-> Items(2)]

\* a template that returns no analysis paragraph for a legal document
TemplateResultNoLegal(revision, category, income) ==
    [analysis |-> IF category = "legal" THEN <<>> ELSE Items(5),
     recommendations |-> Items(4), references |-> Items(3),
     lexIntuition |-> [predictions |-> Items(3), risks |-> Items(2),
                       opportunities |-> Items(2)],
     reasoningLog |-> Items(5)]

\* the template analyzeDocument of each revision; income says whether the
\* file name contains "income", which part_009 reads for a tax document
TemplateResult(revision, category, income) ==
    IF revision = "routes.ts"
    THEN [analysis |-> Items(5), recommendations |-> Items(4),
          references |-> Items(3),
          lexIntuition |-> [predictions |-> Items(3), risks |-> Items(2),
                            opportunities |-> Items(2)],
          reasoningLog |-> Items(5)]
    ELSE IF category \in {"forensic", "tax", "legal"}
    THEN [analysis |-> IF category = "tax" /\ income THEN Items(7) ELSE Items(5),
          recommendations |-> Items(5),
          references |-> IF category = "legal" THEN Items(2) ELSE Items(3),
          lexIntuition |-> [predictions |-> Items(2), risks |-> Items(2),
                            opportunities |-> Items(2)],
          reasoningLog |-> Items(5)]
    ELSE [analysis |-> Items(1), recommendations |-> Items(1),
          reasoningLog |-> Items(1)]

\* the analysisResult object a stored result stands for
AnalysisResultOf(result, category) ==
    CASE result = "gemini" -> FormatGemini(GeminiAnalysis("parsed"))
      [] result = "geminiRawText" -> FormatGemini(GeminiAnalysis("rawText"))
      [] result = "template" -> TemplateResult(impl, category, FALSE)
      [] result = "templateIncome" -> TemplateResult(impl, category, TRUE)

\* an inner try block whose failure goes straight to the failure handler
InnerCatchRethrows == "updateFailed"

\* where a failure inside the inner try block continues: the inner catch,
\* which runs the template analyzeDocument
InnerCatch == "fallback"

\* routes.ts only: the inner try block down to the analysisResult it builds
PD_Gemini(d, outcome) ==
    /\ At(d, "gemini")
    /\ impl = "routes.ts"
    /\ IF outcome \in {"throws", "malformed"}
       THEN \* the call rejects, or geminiAnalysis.risks.map(...) throws while
            \* the result is formatted: the inner catch takes over
            runs' = [runs EXCEPT ![d].pc = InnerCatch, ![d].ai = "failed"]
       ELSE /\ runs' = [runs EXCEPT ![d].pc = "updateCompletedAI",
                                    ![d].ai = outcome,
                                    ![d].result = IF outcome = "parsed"
                                                  THEN "gemini"
                                                  ELSE "geminiRawText"]
    /\ UNCHANGED <<impl, call, activeReqs, storeVars, turns, busVars>>
    /\ lastBroadcast' = NoBroadcast
    /\ res' = NoResponse

\* routes.ts only: updateDocument(completed, analysisResult) inside the inner
\* try; a rejection is caught by the inner catch, which runs the fallback
PD_UpdateCompletedAI(d) ==
    /\ At(d, "updateCompletedAI")
    /\ \/ Update(d, [status |-> "completed", analysisResult |-> runs[d].result],
                 "activityCompleted")
       \/ /\ runs' = [runs EXCEPT ![d].pc = InnerCatch, ![d].ai = "failed",
                                  ![d].result = NullResult]
          /\ UNCHANGED documents
    /\ UNCHANGED <<impl, call, activeReqs, activities, chatVars, busVars>>
    /\ lastBroadcast' = NoBroadcast
    /\ res' = NoResponse

\* the template analyzeDocument: routes.ts calls it from the inner catch
\* ("fallback"), part_009 calls it directly ("analyze"); it awaits getUser
PD_AnalyzeDocument(d) ==
    /\ At(d, "fallback") \/ At(d, "analyze")
    /\ \/ \E income \in BOOLEAN :
             /\ income => impl = "part_009" /\ documents[d].category = "tax"
             /\ runs' = [runs EXCEPT ![d].pc = "updateCompleted",
                                     ![d].result = IF income THEN "templateIncome"
                                                   ELSE "template"]
       \/ runs' = [runs EXCEPT ![d].pc = "updateFailed", ![d].threw = TRUE,
                               ![d].generationFailed = TRUE]
    /\ UNCHANGED <<impl, call, activeReqs, storeVars, turns, busVars>>
    /\ lastBroadcast' = NoBroadcast
    /\ res' = NoResponse

\* updateDocument(completed, analysisResult) guarded by the outer try only
PD_UpdateCompleted(d) ==
    /\ At(d, "updateCompleted")
    /\ \/ Update(d, [status |-> "completed", analysisResult |-> runs[d].result],
                 "activityCompleted")
       \/ /\ ThrowToCatch(d)
          /\ UNCHANGED documents
    /\ UNCHANGED <<impl, call, activeReqs, activities, chatVars, busVars>>
    /\ lastBroadcast' = NoBroadcast
    /\ res' = NoResponse

\* createActivity(... status: "completed")
PD_ActivityCompleted(d) ==
    /\ At(d, "activityCompleted")
    /\ \/ /\ activities' = createActivity(documents[d].userId, ActivityType(d),
                                          "completed", d)
          /\ Goto(d, "activityInsight")
       \/ /\ ThrowToCatch(d)
          /\ UNCHANGED activities
    /\ UNCHANGED <<impl, call, activeReqs, documents, chatVars, busVars>>
    /\ lastBroadcast' = NoBroadcast
    /\ res' = NoResponse

\* createActivity(type: "lexintuition", status: "action")
PD_ActivityInsight(d) ==
    /\ At(d, "activityInsight")
    /\ \/ /\ activities' = createActivity(documents[d].userId, "lexintuition",
                                          "action", d)
          /\ Goto(d, "broadcastCompleted")
       \/ /\ ThrowToCatch(d)
          /\ UNCHANGED activities
    /\ UNCHANGED <<impl, call, activeReqs, documents, chatVars, busVars>>
    /\ lastBroadcast' = NoBroadcast
    /\ res' = NoResponse

\* getDocument(document.id), then broadcastToUser with the Document read
PD_BroadcastCompleted(d) ==
    /\ At(d, "broadcastCompleted")
    /\ \/ RunBroadcast(d, DocumentUpdate(d, documents[d].status), "done",
                       "updateFailed")
       \/ /\ ThrowToCatch(d)
          /\ lastBroadcast' = NoBroadcast
    /\ UNCHANGED <<impl, call, activeReqs, storeVars, turns, busVars>>
    /\ res' = NoResponse

\* a failure handler that does not persist the failed status
PD_UpdateFailedSkipsWrite(d) ==
    /\ At(d, "updateFailed")
    /\ Goto(d, "activityFailed")
    /\ UNCHANGED <<impl, call, activeReqs, storeVars, turns, busVars>>
    /\ lastBroadcast' = NoBroadcast
    /\ res' = NoResponse

\* catch: updateDocument(status: "failed")
PD_UpdateFailed(d) ==
    /\ At(d, "updateFailed")
    /\ \/ Update(d, [status |-> "failed"], "activityFailed")
       \/ /\ ThrowOut(d)
          /\ UNCHANGED documents
    /\ UNCHANGED <<impl, call, activeReqs, activities, chatVars, busVars>>
    /\ lastBroadcast' = NoBroadcast
    /\ res' = NoResponse

\* catch: createActivity(... status: "failed")
PD_ActivityFailed(d) ==
    /\ At(d, "activityFailed")
    /\ \/ /\ activities' = createActivity(documents[d].userId, ActivityType(d),
                                          "failed", d)
          /\ Goto(d, "broadcastFailed")
       \/ /\ ThrowOut(d)
          /\ UNCHANGED activities
    /\ UNCHANGED <<impl, call, activeReqs, documents, chatVars, busVars>>
    /\ lastBroadcast' = NoBroadcast
    /\ res' = NoResponse

\* catch: getDocument(document.id), then broadcastToUser with the Document read
PD_BroadcastFailed(d) ==
    /\ At(d, "broadcastFailed")
    /\ \/ RunBroadcast(d, DocumentUpdate(d, documents[d].status), "done",
                       "rejected")
       \/ /\ ThrowOut(d)
          /\ lastBroadcast' = NoBroadcast
    /\ UNCHANGED <<impl, call, activeReqs, storeVars, turns, busVars>>
    /\ res' = NoResponse

processDocumentAsync(d) ==
    \/ PD_UpdateProcessing(d)
    \/ PD_ActivityProcessing(d)
    \/ PD_BroadcastProcessing(d)
    \/ PD_GetUser(d)
    \/ \E o \in GeminiOutcomes : PD_Gemini(d, o)
    \/ PD_UpdateCompletedAI(d)
    \/ PD_AnalyzeDocument(d)
    \/ PD_UpdateCompleted(d)
    \/ PD_ActivityCompleted(d)
    \/ PD_ActivityInsight(d)
    \/ PD_BroadcastCompleted(d)
    \/ PD_UpdateFailed(d)
    \/ PD_ActivityFailed(d)
    \/ PD_BroadcastFailed(d)

\* ------------------------------------------------ GET /api/conversations/active
\* The handler up to its first await and what follows when the read returned
\* a Conversation: getActiveConversation(req.user.id), res.json(conversation).
\* When the read finds none, the request goes on to createConversation in a
\* later step.
GetActive(u, throws) ==
    /\ Len(conversations) + PendingCreates < MaxConvs
    /\ Load + 2 <= MaxLoad
    /\ IF throws
       THEN /\ res' = Send("active", 500, "Error fetching active conversation")
            /\ UNCHANGED activeReqs
       ELSE IF getActiveConversation(u) # NoConversation
       THEN /\ res' = Json("active", 200, [id |-> getActiveConversation(u)])
            /\ UNCHANGED activeReqs
       ELSE /\ activeReqs' = [activeReqs EXCEPT ![u] = @ + 1]
            /\ res' = NoResponse
    /\ UNCHANGED <<impl, call, storeVars, runs, turns, busVars>>
    /\ lastBroadcast' = NoBroadcast

\* if (!conversation) conversation = await createConversation({ userId });
\* res.json(conversation)
GetActiveCreate(u, throws) ==
    /\ activeReqs[u] > 0
    /\ activeReqs' = [activeReqs EXCEPT ![u] = @ - 1]
    /\ IF throws
       THEN /\ res' = Send("active", 500, "Error fetching active conversation")
            /\ UNCHANGED <<conversations, clock>>
       ELSE /\ conversations' = createConversation(u, clock)
            /\ clock' = clock + 1
            /\ res' = Json("active", 200, [id |-> Len(conversations) + 1])
    /\ UNCHANGED <<impl, call, documents, activities, messages, runs, turns, busVars>>
    /\ lastBroadcast' = NoBroadcast

\* ---------------------------------------------------- POST /api/conversations
CreateConversation(u) ==
    /\ Len(conversations) + PendingCreates < MaxConvs
    /\ Load + 2 <= MaxLoad
    /\ conversations' = createConversation(u, clock)
    /\ clock' = clock + 1
    /\ res' = Json("conversation", 201, [id |-> Len(conversations) + 1])
    /\ UNCHANGED <<impl, call, activeReqs, documents, activities, messages, runs, turns, busVars>>
    /\ lastBroadcast' = NoBroadcast

\* ------------------------------------------ POST /api/conversations/:id/messages
\* generationFailed and published record what the run did: whether a call made
\* to build the reply rejected, and the ids of the Messages it broadcast
NoTurn ==
    [pc |-> "n/a", content |-> "", reasoningLog |-> 0, reply |-> NoMessage,
     generationFailed |-> FALSE, published |-> <<>>]

\* The handler up to its response, authenticated as u.  throwAt names the
\* awaited call that rejects ("none" when all return).
PostMessage(u, cid, content, throwAt) ==
    /\ IF throwAt = "getConversation"
       THEN /\ res' = Send("message", 500, "Error sending message")
            /\ UNCHANGED <<conversations, messages, activities, clock, turns>>
       ELSE IF cid \notin DOMAIN conversations
       THEN /\ throwAt = "none"
            /\ res' = Send("message", 404, "Conversation not found")
            /\ UNCHANGED <<conversations, messages, activities, clock, turns>>
       ELSE IF conversations[cid].userId # u
       THEN /\ throwAt = "none"
            /\ res' = Send("message", 403, "Forbidden")
            /\ UNCHANGED <<conversations, messages, activities, clock, turns>>
       ELSE IF content \notin ValidContents
       THEN /\ throwAt = "none"
            /\ res' = Send("message", 400, "Invalid message content")
            /\ UNCHANGED <<conversations, messages, activities, clock, turns>>
       ELSE IF throwAt = "createMessage"
       THEN /\ res' = Send("message", 500, "Error sending message")
            /\ UNCHANGED <<conversations, messages, activities, clock, turns>>
       ELSE IF throwAt = "updateConversation"
       THEN \* the user Message is stored, generateAIResponse is never called
            /\ messages' = createMessage(cid, "user", content, 0, NoMessage, clock)
            /\ clock' = clock + 1
            /\ turns' = Append(turns, [NoTurn EXCEPT !.pc = "none"])
            /\ res' = Send("message", 500, "Error sending message")
            /\ UNCHANGED <<conversations, activities>>
       ELSE IF throwAt = "createActivity"
       THEN /\ messages' = createMessage(cid, "user", content, 0, NoMessage, clock)
            /\ conversations' = updateConversation(cid, clock + 1)
            /\ clock' = clock + 2
            /\ turns' = Append(turns, [NoTurn EXCEPT !.pc = "none"])
            /\ res' = Send("message", 500, "Error sending message")
            /\ UNCHANGED activities
       ELSE /\ messages' = createMessage(cid, "user", content, 0, NoMessage, clock)
            /\ conversations' = updateConversation(cid, clock + 1)
            /\ clock' = clock + 2
            /\ activities' = createActivity(u, "lexassist", "completed", NoDocument)
            /\ turns' = Append(turns, [NoTurn EXCEPT !.pc = "getMessages"])
            \* res.status(201).json(userMessage)
            /\ res' = Json("message", 201,
                           [id |-> Len(messages) + 1,
                            message |-> createMessage(cid, "user", content, 0,
                                                     NoMessage, clock)[Len(messages) + 1]])
    /\ UNCHANGED <<impl, call, activeReqs, documents, runs, busVars>>
    /\ lastBroadcast' = NoBroadcast

\* --------------------------------------------------------- generateAIResponse
\* m is the id of the user Message of the turn
TurnAt(m, pc) == m \in DOMAIN turns /\ turns[m].pc = pc

TurnGoto(m, pc) == turns' = [turns EXCEPT ![m].pc = pc]

TurnOwner(m) == conversations[messages[m].conversationId].userId

\* an awaited call of the try block rejects: control moves to the catch block
TurnThrowToCatch(m) == TurnGoto(m, "createApology")

\* the same for the calls that build the reply (the history, the user, the
\* Gemini call)
GenerationThrows(m) ==
    turns' = [turns EXCEPT ![m].pc = "createApology",
                           ![m].generationFailed = TRUE]

\* part_009: the reply is chosen by keyword from the user's text
KeywordReply(content) ==
    IF content = "What are my tax deductions?"
    THEN [content |-> "reply:tax", reasoningLog |-> 3]
    ELSE [content |-> "reply:generic", reasoningLog |-> 4]

\* routes.ts: the text generateResponse returned, with the reasoningLog object
GeminiReply == [content |-> "reply:gemini", reasoningLog |-> 4]

\* getMessagesByConversationId(conversation.id)
GR_GetMessages(m) ==
    /\ TurnAt(m, "getMessages")
    /\ \/ TurnGoto(m, "getUser")
       \/ GenerationThrows(m)
    /\ UNCHANGED <<impl, call, activeReqs, storeVars, runs, busVars>>
    /\ lastBroadcast' = NoBroadcast
    /\ res' = NoResponse

\* getUser(conversation.userId); part_009 then builds the reply itself
GR_GetUser(m) ==
    /\ TurnAt(m, "getUser")
    /\ \/ IF impl = "routes.ts"
          THEN TurnGoto(m, "generateResponse")
          ELSE turns' = [turns EXCEPT
                  ![m].pc = "createReply",
                  ![m].content = KeywordReply(messages[m].content).content,
                  ![m].reasoningLog =
                      KeywordReply(messages[m].content).reasoningLog]
       \/ GenerationThrows(m)
    /\ UNCHANGED <<impl, call, activeReqs, storeVars, runs, busVars>>
    /\ lastBroadcast' = NoBroadcast
    /\ res' = NoResponse

\* routes.ts only: generateResponse (the Gemini call) returns or rejects
GR_GenerateResponse(m) ==
    /\ TurnAt(m, "generateResponse")
    /\ \/ turns' = [turns EXCEPT ![m].pc = "createReply",
                                 ![m].content = GeminiReply.content,
                                 ![m].reasoningLog = GeminiReply.reasoningLog]
       \/ GenerationThrows(m)
    /\ UNCHANGED <<impl, call, activeReqs, storeVars, runs, busVars>>
    /\ lastBroadcast' = NoBroadcast
    /\ res' = NoResponse

\* createMessage(sender: "assistant", content, reasoningLog)
GR_CreateReply(m) ==
    /\ TurnAt(m, "createReply")
    /\ \/ /\ messages' = createMessage(messages[m].conversationId, "assistant",
                                       turns[m].content, turns[m].reasoningLog,
                                       m, clock)
          /\ clock' = clock + 1
          /\ turns' = Append([turns EXCEPT ![m].pc = "updateConversation",
                                           ![m].reply = Len(messages) + 1],
                             NoTurn)
       \/ /\ TurnThrowToCatch(m)
          /\ UNCHANGED <<messages, clock>>
    /\ UNCHANGED <<impl, call, activeReqs, documents, activities, conversations, runs, busVars>>
    /\ lastBroadcast' = NoBroadcast
    /\ res' = NoResponse

\* updateConversation(conversation.id, { lastMessageAt: new Date() })
GR_UpdateConversation(m) ==
    /\ TurnAt(m, "updateConversation")
    /\ \/ /\ conversations' = updateConversation(messages[m].conversationId, clock)
          /\ clock' = clock + 1
          /\ TurnGoto(m, "broadcastReply")
       \/ /\ TurnThrowToCatch(m)
          /\ UNCHANGED <<conversations, clock>>
    /\ UNCHANGED <<impl, call, activeReqs, documents, activities, messages, runs, busVars>>
    /\ lastBroadcast' = NoBroadcast
    /\ res' = NoResponse

MessageUpdate(id) ==
    [type |-> IF impl = "routes.ts" THEN "message_update" ELSE "new_message",
     id |-> id, status |-> ""]

\* one broadcastToUser call made by a turn
TurnBroadcast(m, event, next, onThrow) ==
    \E S \in ThrowChoices(TurnOwner(m)) :
        LET b == BroadcastResult(TurnOwner(m), event, S)
        IN  /\ lastBroadcast' = b
            /\ turns' = [turns EXCEPT
                   ![m].pc = IF b.threw THEN onThrow ELSE next,
                   ![m].published = Append(@, event.id)]

\* broadcastToUser(conversation.userId, { message: assistantMessage })
GR_BroadcastReply(m) ==
    /\ TurnAt(m, "broadcastReply")
    /\ TurnBroadcast(m, MessageUpdate(turns[m].reply), "done", "createApology")
    /\ UNCHANGED <<impl, call, activeReqs, storeVars, runs, busVars>>
    /\ res' = NoResponse

\* catch: createMessage(sender: "assistant", content: the apology)
GR_CreateApology(m) ==
    /\ TurnAt(m, "createApology")
    /\ \/ /\ messages' = createMessage(messages[m].conversationId, "assistant",
                                       Apology, 0, m, clock)
          /\ clock' = clock + 1
          /\ turns' = Append([turns EXCEPT ![m].pc = "broadcastApology",
                                           ![m].reply = Len(messages) + 1],
                             NoTurn)
       \/ /\ TurnGoto(m, "rejected")
          /\ UNCHANGED <<messages, clock>>
    /\ UNCHANGED <<impl, call, activeReqs, documents, activities, conversations, runs, busVars>>
    /\ lastBroadcast' = NoBroadcast
    /\ res' = NoResponse

\* a failure handler that returns without its broadcastToUser call
GR_BroadcastApologySkipped(m) ==
    /\ TurnAt(m, "broadcastApology")
    /\ TurnGoto(m, "done")
    /\ UNCHANGED <<impl, call, activeReqs, storeVars, runs, busVars>>
    /\ lastBroadcast' = NoBroadcast
    /\ res' = NoResponse

\* catch: broadcastToUser(conversation.userId, { message: errorMessage })
GR_BroadcastApology(m) ==
    /\ TurnAt(m, "broadcastApology")
    /\ TurnBroadcast(m, MessageUpdate(turns[m].reply), "done", "rejected")
    /\ UNCHANGED <<impl, call, activeReqs, storeVars, runs, busVars>>
    /\ res' = NoResponse

generateAIResponse(m) ==
    \/ GR_GetMessages(m)
    \/ GR_GetUser(m)
    \/ GR_GenerateResponse(m)
    \/ GR_CreateReply(m)
    \/ GR_UpdateConversation(m)
    \/ GR_BroadcastReply(m)
    \/ GR_CreateApology(m)
    \/ GR_BroadcastApology(m)

PostThrowPoints ==
    {"none", "getConversation", "createMessage", "updateConversation",
     "createActivity"}

MaxMessages == 3 * MaxTurns

UploadThrowPoints == {"none", "createDocument", "createActivity"}

\* The bounds on the requests served (MaxDocs, MaxTurns, MaxLoad) are stated
\* here, once for all inputs of a request.
Next ==
    \/ \E c \in Conns : Connect(c)
    \/ \E c \in Conns, data \in WsMessages : OnMessage(c, data)
    \/ \E c \in Conns : Close(c)
    \/ \E c \in Conns : Remove(c)
    \/ /\ Len(documents) < MaxDocs
       /\ Load + 3 <= MaxLoad
       /\ \E u \in Users, hasFile \in BOOLEAN, category \in CategoryInputs,
             throwAt \in UploadThrowPoints : Upload(u, hasFile, category, throwAt)
    \/ \E d \in 1..MaxDocs : processDocumentAsync(d)
    \/ \E u \in Users, throws \in BOOLEAN : GetActive(u, throws)
    \/ \E u \in Users, throws \in BOOLEAN : GetActiveCreate(u, throws)
    \/ \E u \in Users : CreateConversation(u)
    \/ /\ NumUserMessages < MaxTurns
       /\ Load + 2 <= MaxLoad
       /\ \E u \in Users, cid \in 1..MaxConvs, content \in ContentInputs,
             throwAt \in PostThrowPoints : PostMessage(u, cid, content, throwAt)
    \/ \E m \in 1..MaxMessages : generateAIResponse(m)

Spec == Init /\ [][Next]_vars

\* ------------------------------------------------------------ read requests
\* MemStorage.getDocumentsByUserId(userId, category): the ids of the user's
\* Documents, of the category when one is given ("" stands for no filter)
getDocumentsByUserId(userId, category) ==
    {d \in DOMAIN documents :
        /\ documents[d].userId = userId
        /\ category = "" \/ documents[d].category = category}

\* MemStorage.getActivitiesByUserId(userId): the user's Activities
getActivitiesByUserId(userId) ==
    [a \in {x \in DOMAIN activities : x.userId = userId} |-> activities[a]]

\* Array.prototype.sort with (a, b) => a.timestamp - b.timestamp: x is put
\* behind every element of the sorted s that is not later than x
\* the same with the comparator (a, b) => b.timestamp - a.timestamp
RECURSIVE InsertByTimestampDescending(_, _)
InsertByTimestampDescending(x, s) ==
    IF s = <<>> THEN <<x>>
    ELSE IF messages[s[Len(s)]].timestamp >= messages[x].timestamp
         THEN Append(s, x)
         ELSE Append(InsertByTimestampDescending(x, SubSeq(s, 1, Len(s) - 1)),
                     s[Len(s)])

RECURSIVE InsertByTimestamp(_, _)
InsertByTimestamp(x, s) ==
    IF s = <<>> THEN <<x>>
    ELSE IF messages[s[Len(s)]].timestamp <= messages[x].timestamp
         THEN Append(s, x)
         ELSE Append(InsertByTimestamp(x, SubSeq(s, 1, Len(s) - 1)), s[Len(s)])

RECURSIVE SortByTimestamp(_)
SortByTimestamp(ids) ==
    IF ids = <<>> THEN <<>>
    ELSE InsertByTimestamp(ids[Len(ids)],
                           SortByTimestamp(SubSeq(ids, 1, Len(ids) - 1)))

\* MemStorage.getMessagesByConversationId: filter in insertion order, then
\* sort by timestamp; the result is given as the list of Message ids
getMessagesByConversationId(conversationId) ==
    SortByTimestamp(SelectSeq([i \in DOMAIN messages |-> i],
                              LAMBDA i : messages[i].conversationId = conversationId))

\* a read handler that marks the Documents it has seen
ReadMarksDocuments ==
    /\ documents' = [d \in DOMAIN documents |->
                        [documents[d] EXCEPT !.status = "processing"]]
    /\ UNCHANGED <<impl, call, activeReqs, activities, chatVars, runs, busVars>>
    /\ lastBroadcast' = NoBroadcast

\* a read handler answers and changes nothing
ReadOnly ==
    /\ UNCHANGED <<impl, call, activeReqs, storeVars, runs, turns, busVars>>
    /\ lastBroadcast' = NoBroadcast

\* GET /api/documents, authenticated as u; part_009 rejects a category
\* filter outside the three categories
GetDocuments(u, category, throws) ==
    /\ res' = IF impl = "part_009" /\ category # "" /\ category \notin Categories
              THEN Send("documents", 400, "Invalid category")
              ELSE IF throws
              THEN Send("documents", 500, "Error fetching documents")
              ELSE Json("documents", 200,
                        [ids |-> getDocumentsByUserId(u, category)])
    /\ ReadOnly

\* a document read that skips the owner check
GetDocumentAnyUser(u, id, throws) ==
    /\ res' = IF id = NaN THEN Send("document", 400, "Invalid document ID")
              ELSE IF throws THEN Send("document", 500, "Error fetching document")
              ELSE IF id \notin DOMAIN documents
              THEN Send("document", 404, "Document not found")
              ELSE Json("document", 200, [id |-> id, document |-> documents[id]])
    /\ ReadOnly

\* GET /api/documents/:id, authenticated as u; id is parseInt(req.params.id)
GetDocument(u, id, throws) ==
    /\ res' = IF id = NaN THEN Send("document", 400, "Invalid document ID")
              ELSE IF throws THEN Send("document", 500, "Error fetching document")
              ELSE IF id \notin DOMAIN documents
              THEN Send("document", 404, "Document not found")
              ELSE IF documents[id].userId # u
              THEN Send("document", 403, "Forbidden")
              ELSE Json("document", 200, [id |-> id, document |-> documents[id]])
    /\ ReadOnly

\* GET /api/activities, authenticated as u
GetActivities(u, throws) ==
    /\ res' = IF throws THEN Send("activities", 500, "Error fetching activities")
              ELSE Json("activities", 200,
                        [activities |-> getActivitiesByUserId(u)])
    /\ ReadOnly

\* GET /api/conversations/:id/messages, authenticated as u; cid is
\* parseInt(req.params.id)
GetMessages(u, cid, throwAt) ==
    /\ res' = IF cid = NaN THEN Send("messages", 400, "Invalid conversation ID")
              ELSE IF throwAt = "getConversation"
              THEN Send("messages", 500, "Error fetching messages")
              ELSE IF cid \notin DOMAIN conversations
              THEN Send("messages", 404, "Conversation not found")
              ELSE IF conversations[cid].userId # u
              THEN Send("messages", 403, "Forbidden")
              ELSE IF throwAt = "getMessagesByConversationId"
              THEN Send("messages", 500, "Error fetching messages")
              ELSE Json("messages", 200,
                        [conversationId |-> cid,
                         ids |-> getMessagesByConversationId(cid)])
    /\ ReadOnly

\* the category query parameter: absent, a category, another value
CategoryFilters == {"", "tax", "invoice"}

ReadThrowPoints == {"none", "getConversation", "getMessagesByConversationId"}

ReadHandlers ==
    \/ \E u \in Users, category \in CategoryFilters, throws \in BOOLEAN :
          GetDocuments(u, category, throws)
    \/ \E u \in Users, id \in {NaN} \cup 1..MaxDocs, throws \in BOOLEAN :
          GetDocument(u, id, throws)
    \/ \E u \in Users, throws \in BOOLEAN : GetActivities(u, throws)
    \/ \E u \in Users, cid \in {NaN} \cup 1..MaxConvs,
          throwAt \in ReadThrowPoints : GetMessages(u, cid, throwAt)

\* every handler of the server, for behaviours that hold at most MaxReadLoad
\* and use the first MaxReadConns connections
NextReads ==
    \/ /\ Next
       /\ Load' <= MaxReadLoad
       /\ \A c \in Conns : c > MaxReadConns => ws'[c].readyState = "ABSENT"
    \/ ReadHandlers

SpecReads == Init /\ [][NextReads]_vars

-----------------------------------------------------------------------------
\* Functions of the routes module taken on their own.  A call starts with
\* its arguments; the step applies the function as the code computes it.

MaxContentLen == 64
MaxCalls == 2

\* A string is the sequence of its characters.
Chars == <<"a", "b", "c">>
Ellipsis == <<".", ".", ".">>
Content(n, k) == [i \in 1..n |-> Chars[((i * k) % 3) + 1]]
Contents == {Content(n, k) : n \in 1..MaxContentLen, k \in 1..2}

\* String.prototype.substring(0, end)
substring(str, end) == SubSeq(str, 1, IF end < Len(str) THEN end ELSE Len(str))

\* variant: the cut keeps 60 characters before the ellipsis
DescriptionCutAtSixty(content) ==
    IF Len(content) > 60 THEN substring(content, 60) \o Ellipsis ELSE content

\* details.description of the "lexassist" Activity of a turn
Description(content) ==
    IF Len(content) > 60 THEN substring(content, 57) \o Ellipsis ELSE content

\* the content handed to createMessage for the user's Message
MessageContent(content) == content

\* POST /api/conversations/:id/messages, the part that derives the stored
\* Message and the Activity description from req.body.content
DescribeTurn ==
    /\ call.fn = "describe"
    /\ ~call.returned
    /\ call' = [call EXCEPT !.returned = TRUE,
                            !.message = MessageContent(call.content),
                            !.description = Description(call.content)]
    /\ UNCHANGED <<impl, activeReqs, storeVars, runs, turns, busVars,
                   lastBroadcast, res>>

\* filename.toLowerCase().includes('income')
Filenames == {"income_2024.pdf", "Income-Tax.PDF", "contract.pdf"}
includesIncome(filename) == filename \in {"income_2024.pdf", "Income-Tax.PDF"}

Jurisdictions == {"India", "USA"}

\* The content strategy whose wording the template result carries.
TemplateStrategy(revision, category) ==
    IF revision = "routes.ts"
    THEN IF category = "forensic" THEN "forensic"
         ELSE IF category = "tax" THEN "tax"
         ELSE "legal"
    ELSE IF category \in {"forensic", "tax", "legal"} THEN category
    ELSE "unsupported"

\* analyzeDocument(fileBuffer, filename, category, document), the template
TemplateCall(revision, category, filename) ==
    [strategy |-> TemplateStrategy(revision, category),
     result |-> TemplateResult(revision, category, includesIncome(filename))]

\* One call of the template analyzeDocument with the next filename; the
\* category and the user's jurisdiction are the same in every call.
AnalyzeTemplate ==
    /\ call.fn = "analyzeDocument"
    /\ Len(call.returns) < Len(call.filenames)
    /\ call' = [call EXCEPT !.returns =
                   Append(@, TemplateCall(impl, call.category,
                                          call.filenames[Len(call.returns) + 1]))]
    /\ UNCHANGED <<impl, activeReqs, storeVars, runs, turns, busVars,
                   lastBroadcast, res>>

\* ------------------------------------------- generateTimeMachinePredictions
\* a prediction, reduced to the two fields with a fixed range
Prediction(riskScore, impact) == [riskScore |-> riskScore, impact |-> impact]

\* getFallbackPredictions(documentType, timeline): the entry of the table for
\* the documentType, or the general predictions
getFallbackPredictions(documentType) ==
    IF documentType = "legal"
    THEN [predictions |-> <<Prediction(67, "High"), Prediction(78, "Critical"),
                            Prediction(91, "Critical")>>,
          confidenceScore |-> 85]
    ELSE IF documentType = "tax"
    THEN [predictions |-> <<Prediction(58, "Medium"), Prediction(83, "High"),
                            Prediction(95, "High")>>,
          confidenceScore |-> 78]
    ELSE IF documentType = "forensic"
    THEN [predictions |-> <<Prediction(74, "High"), Prediction(77, "Critical"),
                            Prediction(62, "Medium")>>,
          confidenceScore |-> 73]
    ELSE [predictions |-> <<Prediction(65, "Medium"), Prediction(70, "High"),
                            Prediction(55, "Medium")>>,
          confidenceScore |-> 60]

\* What the Gemini call gives: a rejection, a text without braces, a text
\* whose braces do not hold valid JSON, or a JSON object.  The object is
\* whatever the model wrote; the values it may carry in the two fields:
RiskScoreOutputs == {0, 1, 85, 100, 101}
ImpactOutputs == {"Low", "Medium", "High", "Critical", "Severe"}

TimeMachineOutputs ==
    [kind : {"throws", "noBraces", "invalidJson"}]
        \cup [kind : {"json"}, riskScore : RiskScoreOutputs,
              impact : ImpactOutputs]

\* generateTimeMachinePredictions: JSON.parse(jsonMatch[0]) is returned as it
\* is; every failure inside the try block returns the fallback predictions
TimeMachineResponse(documentType, output) ==
    IF output.kind = "json"
    THEN [predictions |-> <<Prediction(output.riskScore, output.impact)>>,
          confidenceScore |-> 75]
    ELSE getFallbackPredictions(documentType)

GenerateTimeMachine ==
    /\ call.fn = "generateTimeMachinePredictions"
    /\ ~call.returned
    /\ call' = [call EXCEPT !.returned = TRUE,
                            !.response = TimeMachineResponse(call.documentType,
                                                             call.output)]
    /\ UNCHANGED <<impl, activeReqs, storeVars, runs, turns, busVars,
                   lastBroadcast, res>>

TimeMachineCalls ==
    [fn : {"generateTimeMachinePredictions"}, documentType : CategoryInputs,
     output : TimeMachineOutputs, returned : {FALSE}, response : {<<>>}]

\* ------------------------------------- analyzeDocument (the Gemini strategy)
\* The response text as a sequence of pieces: "t" prose without braces,
\* "{A" the opening { "analysis" of a result object, "{" another opening
\* brace, "v" member text inside an object, "}" a closing brace, and the
\* opening and the closing code fence.
Opens == {"{A", "{"}
Fences == {"<fence json>", "<fence>"}

ResultObjects == {<<"{A", "v", "}">>, <<"{A", "v", "{", "v", "}", "}">>}
Prefixes == {<<>>, <<"t">>}
Suffixes == {<<>>, <<"t">>, <<"t", "{", "v", "}">>, <<"{", "v", "}", "t">>}

ResponseTexts ==
    {pre \o obj \o suf : pre \in Prefixes, obj \in ResultObjects, suf \in Suffixes}
        \cup {pre \o <<"<fence json>">> \o obj \o <<"<fence>">> \o suf :
                 pre \in Prefixes, obj \in ResultObjects, suf \in Suffixes}
        \cup {pre \o <<"{A", "v">> \o suf : pre \in Prefixes, suf \in Suffixes}
        \cup {pre \o <<"<fence json>", "<fence>">> \o suf :
                 pre \in Prefixes, suf \in Suffixes}
        \cup Prefixes

\* JSON.parse(str) returns for one well-formed object and throws otherwise:
\* the nesting depth after each piece, or -1 once the text is no object
JsonParses(str) ==
    LET D[i \in 0..Len(str)] ==
            IF i = 0 THEN 0
            ELSE IF D[i - 1] = -1 \/ (i > 1 /\ D[i - 1] = 0) THEN -1
            ELSE IF str[i] \in Opens THEN D[i - 1] + 1
            ELSE IF str[i] = "}" /\ D[i - 1] >= 1 THEN D[i - 1] - 1
            ELSE IF str[i] = "v" /\ D[i - 1] >= 1 THEN D[i - 1]
            ELSE -1
    IN  Len(str) >= 2 /\ D[Len(str)] = 0

NoMatch == <<"no match">>

\* text.match of the fence pattern (lazy): from the first opening fence to
\* the first fence after it; jsonMatch[1] || jsonMatch[0]
FenceMatch(text) ==
    LET starts == {i \in DOMAIN text : text[i] = "<fence json>"
                      /\ \E j \in DOMAIN text : j > i /\ text[j] \in Fences}
    IN  IF starts = {} THEN NoMatch
        ELSE LET i == CHOOSE x \in starts : \A y \in starts : x <= y
                 ends == {j \in DOMAIN text : j > i /\ text[j] \in Fences}
                 j == CHOOSE x \in ends : \A y \in ends : x <= y
             IN  IF j = i + 1 THEN SubSeq(text, i, j)
                 ELSE SubSeq(text, i + 1, j - 1)

\* text.match(/\{\s*"analysis"[\s\S]*\}/): from the first { "analysis" to
\* the last closing brace of the text
BraceMatch(text) ==
    LET starts == {i \in DOMAIN text : text[i] = "{A"
                      /\ \E j \in DOMAIN text : j > i /\ text[j] = "}"}
    IN  IF starts = {} THEN NoMatch
        ELSE LET i == CHOOSE x \in starts : \A y \in starts : x <= y
                 ends == {j \in DOMAIN text : j > i /\ text[j] = "}"}
                 j == CHOOSE x \in ends : \A y \in ends : y <= x
             IN  SubSeq(text, i, j)

\* jsonStr of the first pattern that matches
ExtractJson(text) ==
    IF FenceMatch(text) # NoMatch THEN FenceMatch(text) ELSE BraceMatch(text)

Extractors == {"part_003", "part_004"}

\* what analyzeDocument returns once the Gemini call has returned text:
\* the fields of the parsed object; after a JSON.parse that threw, the error
\* paragraph (part_003) or the raw text (part_004); without a match, the
\* "unable to analyze" paragraph (part_003) or the raw text (part_004); the
\* other lists are empty in these two cases
ExtractResult(extractor, text) ==
    LET jsonStr == ExtractJson(text)
    IN  IF jsonStr # NoMatch /\ JsonParses(jsonStr)
        THEN [kind |-> "parsed", object |-> jsonStr, analysis |-> Items(1),
              risks |-> Items(3), recommendations |-> Items(3)]
        ELSE [kind |-> IF extractor = "part_004" THEN "rawText"
                       ELSE IF jsonStr # NoMatch THEN "parseError"
                       ELSE "unable",
              object |-> <<>>, analysis |-> Items(1),
              risks |-> <<>>, recommendations |-> <<>>]

ExtractAnalysis ==
    /\ call.fn = "extract"
    /\ ~call.returned
    /\ call' = [call EXCEPT !.returned = TRUE,
                            !.result = ExtractResult(call.extractor, call.text)]
    /\ UNCHANGED <<impl, activeReqs, storeVars, runs, turns, busVars,
                   lastBroadcast, res>>

ExtractCalls ==
    [fn : {"extract"}, extractor : Extractors, text : ResponseTexts,
     returned : {FALSE}, result : {<<>>}]

DescribeCalls ==
    [fn : {"describe"}, content : Contents, returned : {FALSE},
     message : {<<>>}, description : {<<>>}]

AnalyzeCalls ==
    [fn : {"analyzeDocument"}, category : CategoryInputs,
     jurisdiction : Jurisdictions,
     filenames : [1..MaxCalls -> Filenames], returns : {<<>>}]

InitCalls ==
    /\ impl \in Impls
    /\ documents = <<>>
    /\ activities = EmptyBag
    /\ conversations = <<>>
    /\ messages = <<>>
    /\ clock = 1
    /\ runs = <<>>
    /\ turns = <<>>
    /\ activeReqs = [u \in Users |-> 0]
    /\ wssClients = <<>>
    /\ ws = [c \in Conns |-> FreshWs]
    /\ lastBroadcast = NoBroadcast
    /\ res = NoResponse
    /\ call \in DescribeCalls \cup AnalyzeCalls \cup TimeMachineCalls
                \cup ExtractCalls

NextCalls ==
    \/ DescribeTurn
    \/ AnalyzeTemplate
    \/ GenerateTimeMachine
    \/ ExtractAnalysis

SpecCalls == InitCalls /\ [][NextCalls]_vars

-----------------------------------------------------------------------------
\* processDocumentAsync(fileBuffer, document) called on its own for a stored
\* Document.  MemStorage.createDocument stores whatever category it is given,
\* so the Document passed in may carry any category; the owner has up to
\* MaxConns connections, open and authenticated for the whole run.

OwnerSocket == [readyState |-> "OPEN", userId |-> 1, sessionId |-> TRUE]

InitRuns ==
    /\ impl \in Impls
    /\ \E category \in CategoryInputs :
          documents = <<[userId |-> 1, category |-> category,
                         status |-> "pending", analysisResult |-> NullResult]>>
    /\ activities = SetToBag({[userId |-> 1, type |-> "upload",
                               status |-> "completed", relatedDocumentId |-> 1]})
    /\ conversations = <<>>
    /\ messages = <<>>
    /\ clock = 1
    /\ runs = <<NewRun>>
    /\ turns = <<>>
    /\ activeReqs = [u \in Users |-> 0]
    /\ \E n \in 0..MaxConns :
          /\ wssClients = [i \in 1..n |-> i]
          /\ ws = [c \in Conns |-> IF c <= n THEN OwnerSocket ELSE FreshWs]
    /\ lastBroadcast = NoBroadcast
    /\ res = NoResponse
    /\ call = [fn |-> "processDocumentAsync", document |-> 1]

NextRuns == \E d \in 1..MaxDocs : processDocumentAsync(d)

SpecRuns == InitRuns /\ [][NextRuns]_vars

\* ====================================================================
\* Properties
\* ====================================================================
Terminal == {"completed", "failed"}

StatusRank(status) ==
    CASE status = "pending" -> 0
      [] status = "processing" -> 1
      [] OTHER -> 2

RunEnded(d) == runs[d].pc \in {"none", "done", "rejected"}

TurnEnded(m) == turns[m].pc \in {"none", "done", "rejected"}

\* the Activities stored for Document d that describe an entry into status
TransitionActivities(d, status) ==
    CopiesIn([userId |-> documents[d].userId, type |-> documents[d].category,
              status |-> status, relatedDocumentId |-> d], activities)

AssistantMessages(m) ==
    {a \in DOMAIN messages :
        messages[a].sender = "assistant" /\ messages[a].replyTo = m}

\* C1: once a Document's stored status is completed or failed it never changes
\* again, and no step moves a status backward.
C1_StatusMonotonic ==
    [][\A d \in DOMAIN documents :
          /\ documents[d].status \in Terminal
                => documents'[d].status = documents[d].status
          /\ StatusRank(documents'[d].status) >= StatusRank(documents[d].status)
      ]_vars

\* C2: a stored Document carries an analysisResult if and only if its status
\* is completed.
C2_ResultIffCompleted ==
    \A d \in DOMAIN documents :
        documents[d].analysisResult # NullResult
            <=> documents[d].status = "completed"

\* C3: every Document created by an upload reaches completed or failed: when
\* nothing is left to run for a Document (the handler never started the run, or
\* the run has returned or rejected) its status is terminal.
C3_EndsTerminal ==
    \A d \in DOMAIN documents :
        RunEnded(d) => documents[d].status \in Terminal

\* C4: generateAIResponse persists at most one assistant Message per user
\* Message, so a conversation never holds more assistant than user Messages.
C4_AtMostOneReply ==
    /\ \A m \in DOMAIN messages : Cardinality(AssistantMessages(m)) <= 1
    /\ \A cid \in DOMAIN conversations :
          Cardinality({a \in DOMAIN messages :
                          /\ messages[a].conversationId = cid
                          /\ messages[a].sender = "assistant"})
            <= Cardinality({u \in DOMAIN messages :
                               /\ messages[u].conversationId = cid
                               /\ messages[u].sender = "user"})

\* C5: every persisted user Message is followed by an assistant Message of the
\* same conversation: when nothing is left to run for the turn, the reply or
\* the apology is stored after it.
C5_EveryTurnAnswered ==
    \A m \in DOMAIN messages :
        (messages[m].sender = "user" /\ TurnEnded(m))
            => \E a \in AssistantMessages(m) :
                  /\ a > m
                  /\ messages[a].conversationId = messages[m].conversationId

\* C6: for every status transition a Document has undergone exactly one
\* Activity with its id describes that transition (read once the run has
\* ended, since the Activity is written by the step after the transition).
C6_OneActivityPerTransition ==
    \A d \in DOMAIN documents :
        RunEnded(d) =>
            \A status \in {"processing", "completed", "failed"} :
                TransitionActivities(d, status)
                    = Cardinality({t \in runs[d].transitions : t[2] = status})

\* C7: broadcastToUser(U, event) sends only to connections that are open, have
\* completed the auth handshake and are associated with U.
C7_OnlyOwnConnections ==
    \A c \in lastBroadcast.recipients \cup lastBroadcast.failed :
        /\ ws[c].readyState = "OPEN"
        /\ ws[c].userId # NoUser
        /\ ws[c].userId = lastBroadcast.target

\* C7 witness: an event for one user was sent to a connection of that user
\* while wss.clients held an open connection associated with another user
C7_Witness ==
    /\ lastBroadcast.recipients # {}
    /\ \E c \in Conns :
          /\ ws[c].readyState = "OPEN"
          /\ ws[c].userId \notin {NoUser, lastBroadcast.target}

\* C8: broadcastToUser(U, event) delivers to every connection that is open and
\* authenticated as U at the call, whatever happens to the send to another one.
C8_NoOneSkipped ==
    lastBroadcast.target # NoUser =>
        \A c \in Conns :
            (/\ ws[c].readyState = "OPEN"
             /\ ws[c].userId = lastBroadcast.target
             /\ c \notin lastBroadcast.failed)
                => c \in lastBroadcast.recipients

\* the handshake message auth{userId: U}, with no other field
AuthUserId(U) == [type |-> "auth", userId |-> U, sessionId |-> FALSE]

\* C9: once an open connection has sent auth{userId: U} it is associated with
\* U and passes the test broadcastToUser(U, event) makes before it sends.
C9_HandshakeAssociates ==
    \A c \in Conns, U \in Users :
        ws[c].readyState = "OPEN"
            => /\ OnMessageResult(ws[c], AuthUserId(U)).userId = U
               /\ BroadcastMatches(OnMessageResult(ws[c], AuthUserId(U)), U)

\* C10: a Document's status reaches completed or failed only from processing:
\* no step changes a pending status to failed or to completed.
C10_TerminalOnlyFromProcessing ==
    [][\A d \in DOMAIN documents :
          documents[d].status = "pending"
              => documents'[d].status \in {"pending", "processing"}
      ]_vars

\* C11: an upload request with no file, or with a category outside
\* {forensic, tax, legal}, is answered 400 and leaves the Documents and the
\* Activities as they were, and no processDocumentAsync run is started.
C11_RejectedUploadTouchesNothing ==
    [][res'.route = "upload" =>
          \A u \in Users, hasFile \in BOOLEAN, category \in CategoryInputs,
             throwAt \in UploadThrowPoints :
             (/\ ~hasFile \/ category \notin {"forensic", "tax", "legal"}
              /\ Upload(u, hasFile, category, throwAt))
                 => /\ res'.status = 400
                    /\ UNCHANGED <<documents, activities, runs>>
      ]_vars

\* C11 witness: an upload was just rejected with 400 while the store already
\* holds a Document and its Activity
C11_Witness ==
    /\ res.route = "upload"
    /\ res.status = 400
    /\ Len(documents) > 0
    /\ activities # EmptyBag

\* C12: a message-append request whose content is missing, empty or not a
\* string, or whose conversation does not exist, is rejected: no Message and
\* no Activity is created, lastMessageAt is unchanged and no
\* generateAIResponse run is started.  Stated on the steps of the message
\* route: a step either is a rejection that leaves all of these unchanged, or
\* no request with such a content or conversation id can have taken it.
C12_RejectedMessageTouchesNothing ==
    [][res'.route = "message" =>
          \/ /\ res'.status \in {400, 403, 404, 500}
             /\ UNCHANGED <<messages, activities, conversations, turns>>
          \/ \A u \in Users, cid \in 1..MaxConvs, content \in ContentInputs,
                throwAt \in PostThrowPoints :
                PostMessage(u, cid, content, throwAt)
                    => /\ content \notin {"<empty>", "<not a string>"}
                       /\ cid \in DOMAIN conversations
      ]_vars

\* C12 witness: a message-append to an existing conversation that already
\* holds a Message was just rejected for its content
C12_Witness ==
    /\ res.route = "message"
    /\ res.status = 400
    /\ Len(messages) > 0

\* an analysisResult with all its parts and at least one analysis paragraph
WellFormed(r) ==
    /\ {"analysis", "recommendations", "references", "lexIntuition",
        "reasoningLog"} \subseteq DOMAIN r
    /\ Len(r.analysis) > 0

\* the run of Document d has returned from its try block: no awaited call
\* outside the inner try block rejected and no send threw
RunReturned(d) == runs[d].pc = "done" /\ ~runs[d].threw

\* C13: when the Gemini call throws or returns output that is not the
\* expected JSON, and nothing else fails, the run ends with the Document
\* completed and carrying the template result or the degraded Gemini result.
C13_FallbackCompletes ==
    \A d \in DOMAIN runs :
        (/\ runs[d].ai \in {"failed", "rawText"}
         /\ RunEnded(d)
         /\ ~runs[d].threw)
            => /\ RunReturned(d)
               /\ documents[d].status = "completed"
               /\ documents[d].analysisResult =
                      IF runs[d].ai = "failed" THEN "template" ELSE "geminiRawText"
               /\ WellFormed(AnalysisResultOf(documents[d].analysisResult,
                                              documents[d].category))

\* C13 witness: a run whose Gemini call failed has ended with the template
\* result stored on a completed Document
C13_Witness ==
    \E d \in DOMAIN runs :
        /\ runs[d].ai = "failed"
        /\ RunReturned(d)
        /\ documents[d].analysisResult = "template"

\* positions of a run inside and after its failure handler
CatchPositions ==
    {"updateFailed", "activityFailed", "broadcastFailed", "done", "rejected"}

\* number of document_update events with this status the run has published
Published(d, status) ==
    Cardinality({i \in DOMAIN runs[d].published : runs[d].published[i] = status})

\* C14: when analysis generation fails for a run, the run goes to its failure
\* handler and never back to generation; once the handler has returned the
\* Document is stored as failed, exactly one failed Activity names it, and
\* exactly one document_update carrying the failed Document was published to
\* the owner, as the last event of the run.
C14_FailureHandled ==
    \A d \in DOMAIN runs :
        runs[d].generationFailed =>
            /\ runs[d].pc \in CatchPositions
            /\ runs[d].pc = "done" =>
                  /\ documents[d].status = "failed"
                  /\ TransitionActivities(d, "failed") = 1
                  /\ Published(d, "failed") = 1
                  /\ runs[d].published[Len(runs[d].published)] = "failed"
                  /\ (/\ lastBroadcast.event.type = "document_update"
                      /\ lastBroadcast.event.id = d)
                        => /\ lastBroadcast.target = documents[d].userId
                           /\ lastBroadcast.event.status = "failed"

\* C14 witness: generation failed, the failure handler has returned and its
\* document_update was just delivered to a connection of the owner
C14_Witness ==
    \E d \in DOMAIN runs :
        /\ runs[d].generationFailed
        /\ runs[d].pc = "done"
        /\ documents[d].status = "failed"
        /\ lastBroadcast.event = DocumentUpdate(d, "failed")
        /\ lastBroadcast.recipients # {}

\* C15: every completed Document carries an analysisResult whose analysis is
\* a non-empty list, for the Gemini-backed result, the result built from raw
\* Gemini text and the template result of each category.
C15_AnalysisNonEmpty ==
    /\ \A d \in DOMAIN documents :
          documents[d].status = "completed"
              => /\ documents[d].analysisResult # NullResult
                 /\ Len(AnalysisResultOf(documents[d].analysisResult,
                                         documents[d].category).analysis) > 0
    /\ \A category \in Categories, income \in BOOLEAN :
          Len(TemplateResult(impl, category, income).analysis) > 0
    /\ \A outcome \in {"parsed", "rawText"} :
          Len(FormatGemini(GeminiAnalysis(outcome)).analysis) > 0

\* C15 witness: a legal Document completed with the template result while a
\* second Document is stored
C15_Witness ==
    \E d \in DOMAIN documents :
        /\ documents[d].status = "completed"
        /\ documents[d].category = "legal"
        /\ documents[d].analysisResult = "template"
        /\ Len(documents) > 1

\* the insight Activities stored for Document d
InsightActivities(d) ==
    CopiesIn([userId |-> documents[d].userId, type |-> "lexintuition",
              status |-> "action", relatedDocumentId |-> d], activities)

\* C16: durable state is written before the matching notification: a
\* document_update carrying status s is published only when the stored
\* Document has status s, the completion event only when the completed and
\* the insight Activity are stored, and a message event only when the
\* assistant Message it carries is stored.
C16_PersistBeforePublish ==
    /\ lastBroadcast.event.type = "document_update" =>
          /\ lastBroadcast.event.id \in DOMAIN documents
          /\ documents[lastBroadcast.event.id].status = lastBroadcast.event.status
          /\ lastBroadcast.event.status = "completed" =>
                /\ TransitionActivities(lastBroadcast.event.id, "completed") >= 1
                /\ InsightActivities(lastBroadcast.event.id) >= 1
    /\ lastBroadcast.event.type \in {"message_update", "new_message"} =>
          /\ lastBroadcast.event.id \in DOMAIN messages
          /\ messages[lastBroadcast.event.id].sender = "assistant"

\* C16 witness: the completion event of a Document was just delivered to a
\* connection of its owner
C16_Witness ==
    /\ lastBroadcast.event.type = "document_update"
    /\ lastBroadcast.event.status = "completed"
    /\ lastBroadcast.recipients # {}

\* C17: exactly one insight Activity exists for every completed Document and
\* none for a Document that is pending, processing or failed (read once the
\* run has ended, since the insight Activity is written two steps after the
\* completed status).
C17_OneInsightIffCompleted ==
    \A d \in DOMAIN documents :
        RunEnded(d) =>
            InsightActivities(d) = IF documents[d].status = "completed" THEN 1 ELSE 0

\* the positions of a turn's failure handler and after it
TurnCatchPositions == {"createApology", "broadcastApology", "done", "rejected"}

\* C18: when a call made to build the reply of a chat turn rejects, the turn
\* goes to its failure handler, which persists one assistant Message for the
\* turn, with the apology as content and no reasoning log, and publishes
\* exactly that Message to the owner of the conversation, also when a send
\* throws; a reply persisted by the try block carries the generated content
\* and a non-empty reasoning log, and every assistant Message is one or the
\* other.
C18_ApologyOnFailure ==
    /\ \A m \in DOMAIN turns :
          turns[m].generationFailed =>
              /\ turns[m].pc \in TurnCatchPositions
              /\ Cardinality(AssistantMessages(m)) <= 1
              /\ \A a \in AssistantMessages(m) :
                    /\ messages[a].content = Apology
                    /\ messages[a].reasoningLog = 0
              /\ turns[m].pc \in {"broadcastApology", "done"}
                    => AssistantMessages(m) = {turns[m].reply}
              /\ turns[m].pc = "broadcastApology" => turns[m].published = <<>>
              /\ (turns[m].pc = "done"
                    \/ (turns[m].pc = "rejected" /\ AssistantMessages(m) # {}))
                    => turns[m].published = <<turns[m].reply>>
              /\ (/\ lastBroadcast.event.type = MessageUpdate(0).type
                  /\ lastBroadcast.event.id \in AssistantMessages(m))
                    => lastBroadcast.target = TurnOwner(m)
    /\ \A m \in DOMAIN turns :
          turns[m].pc \in {"updateConversation", "broadcastReply"} =>
              /\ turns[m].reply \in AssistantMessages(m)
              /\ messages[turns[m].reply].content = turns[m].content
              /\ messages[turns[m].reply].content # Apology
              /\ messages[turns[m].reply].reasoningLog > 0
    /\ \A a \in DOMAIN messages :
          messages[a].sender = "assistant" =>
              (messages[a].content = Apology <=> messages[a].reasoningLog = 0)

\* C18 witness: the reply could not be built, the failure handler has stored
\* the apology and its notification was just delivered to the owner
C18_Witness ==
    \E m \in DOMAIN turns :
        /\ turns[m].generationFailed
        /\ turns[m].pc = "done"
        /\ messages[turns[m].reply].content = Apology
        /\ lastBroadcast.event = MessageUpdate(turns[m].reply)
        /\ lastBroadcast.recipients # {}

C20_AtMostOneOpen ==
    \A u \in Users : Cardinality(OpenConversations(u)) <= 1

\* the run of Document d has not ended
InFlight(d) == d \in DOMAIN runs /\ ~RunEnded(d)

\* C21: a step of the run of Document a, a failing one included, leaves every
\* other Document and the run of every other Document as they were; and the
\* run of a Document that has not ended can always take its next step,
\* whatever the runs of the other Documents are doing.
C21_RunsIndependent ==
    /\ [][\A a \in DOMAIN runs :
             runs'[a] # runs[a] =>
                 \A b \in DOMAIN documents \ {a} :
                     /\ documents'[b] = documents[b]
                     /\ runs'[b] = runs[b]
         ]_vars
    /\ [](\A b \in DOMAIN runs :
             InFlight(b) => ENABLED processDocumentAsync(b))

\* C21 witness: the run of the second Document has ended with the Document
\* completed while the run of the first one has not taken a step
C21_Witness ==
    /\ Len(documents) = 2
    /\ RunEnded(2)
    /\ documents[2].status = "completed"
    /\ runs[1].pc = "updateProcessing"
    /\ documents[1].status = "pending"

\* C22: a step adds at most one run, and only an upload does: the upload
\* stores a Document under an id that no stored Document has, answers 201 with
\* that id exactly when it starts the run of that id, and every Document has
\* one run slot; no step puts a run that has left its first position back to
\* it, so processDocumentAsync is entered once per Document id.
C22_OneRunPerDocument ==
    [][/\ Len(runs') = Len(documents')
       /\ Len(runs') \in {Len(runs), Len(runs) + 1}
       /\ \A d \in DOMAIN runs :
             runs'[d].pc = "updateProcessing" => runs[d].pc = "updateProcessing"
       /\ Len(runs') = Len(runs) + 1 =>
             /\ res'.route = "upload"
             /\ Len(runs') \notin DOMAIN documents
             /\ documents'[Len(runs')].status = "pending"
             /\ \A d \in DOMAIN documents : documents'[d] = documents[d]
             /\ res'.status = 201 <=> runs'[Len(runs')].pc = "updateProcessing"
             /\ res'.status = 201 => res'.body.id = Len(runs')
       /\ (res'.route = "upload" /\ res'.status = 201) =>
             Len(runs') = Len(runs) + 1
      ]_vars

\* C22 witness: a second upload was just answered 201 and its run started
\* while the run of the first Document is in flight
C22_Witness ==
    /\ res.route = "upload"
    /\ res.status = 201
    /\ res.body.id = 2
    /\ runs[2].pc = "updateProcessing"
    /\ InFlight(1)
    /\ runs[1].pc # "updateProcessing"

C24_AppendOnly ==
    [][/\ \A m \in DOMAIN messages :
             m \in DOMAIN messages' /\ messages'[m] = messages[m]
       /\ activities \sqsubseteq activities'
       /\ \A d \in DOMAIN documents :
             /\ d \in DOMAIN documents'
             /\ documents'[d].userId = documents[d].userId
             /\ documents'[d].category = documents[d].category
      ]_vars

\* C24 witness: the owner was just sent the Activities of a completed
\* Document: the upload, the two status changes and the insight
C24_Witness ==
    /\ res.route = "activities"
    /\ res.status = 200
    /\ BagCardinality(res.body.activities) >= 4
    /\ Len(documents) = 1
    /\ documents[1].status = "completed"

\* C25: the promise returned by processDocumentAsync and the promise returned
\* by generateAIResponse never reject.
C25_NeverRejects ==
    /\ \A d \in DOMAIN runs : runs[d].pc # "rejected"
    /\ \A m \in DOMAIN turns : turns[m].pc # "rejected"

\* C26: a step that calls broadcastToUser without delivering to every
\* matching connection (there is none, or a send fails) changes no Document,
\* Message or Activity and moves no run and no turn into its failure handler
\* or out of it by an exception.
C26_DroppedSilently ==
    [][(/\ lastBroadcast'.event.type # "none"
        /\ lastBroadcast'.recipients = {} \/ lastBroadcast'.failed # {})
          => /\ UNCHANGED <<documents, messages, activities>>
             /\ \A d \in DOMAIN runs :
                   runs'[d].pc \in {"updateFailed", "rejected"}
                       => runs'[d].pc = runs[d].pc
             /\ \A m \in DOMAIN turns :
                   turns'[m].pc \in {"createApology", "rejected"}
                       => turns'[m].pc = turns[m].pc
      ]_vars

\* the position of Message id x in the list ids
PositionIn(x, ids) == CHOOSE i \in DOMAIN ids : ids[i] = x

C28_DescriptionBounded ==
    (call.fn = "describe" /\ call.returned)
        => /\ Len(call.description) <= 60
           /\ Len(call.content) <= 60 => call.description = call.content
           /\ Len(call.content) > 60
                => /\ Len(call.description) = 60
                   /\ \A i \in 1..57 : call.description[i] = call.content[i]
                   /\ \A i \in 58..60 : call.description[i] = "."
           /\ call.message = call.content

\* a content of more than 60 characters has been described
C28_Witness ==
    /\ call.fn = "describe"
    /\ call.returned
    /\ Len(call.content) = 61
    /\ Len(call.description) = 60
    /\ Len(call.message) = 61

\* C29: the template fallback generator is deterministic: two calls of the
\* template analyzeDocument with the same category and the same user
\* jurisdiction return results with the same fields, the same list lengths
\* and a non-empty analysis list, whatever the filenames and whatever was
\* called before.  (Every list of a result is Items(n), so two results are
\* equal exactly when they have the same fields and the same list lengths.)
C29_TemplateDeterministic ==
    (call.fn = "analyzeDocument" /\ Len(call.returns) = MaxCalls)
        => \A i, j \in 1..MaxCalls :
              /\ DOMAIN call.returns[i].result = DOMAIN call.returns[j].result
              /\ call.returns[i].result = call.returns[j].result
              /\ Len(call.returns[i].result.analysis) > 0

\* C30: the analysis generator dispatches on the category to exactly one of
\* the three content strategies forensic, tax and legal, and for a category
\* outside that set it returns a minimal error result, whose one analysis
\* paragraph says the category is not supported, instead of the content of
\* one of the three strategies.
C30_DispatchOnCategory ==
    call.fn = "analyzeDocument"
        => \A i \in 1..Len(call.returns) :
              IF call.category \in Categories
              THEN call.returns[i].strategy = call.category
              ELSE /\ call.returns[i].strategy = "unsupported"
                   /\ Len(call.returns[i].result.analysis) = 1
                   /\ "references" \notin DOMAIN call.returns[i].result

\* C31: processDocumentAsync validates the category of its Document before
\* anything else: for a category outside forensic, tax and legal the run is
\* not retried, neither analysis generator is invoked, no "processing"
\* Activity is written, and the Document ends in status failed.
C31_CategoryValidatedFirst ==
    \A d \in DOMAIN runs :
        documents[d].category \notin Categories
            => /\ runs[d].pc \notin {"activityProcessing", "broadcastProcessing",
                                     "getUser", "gemini", "analyze"}
               /\ runs[d].ai = "none"
               /\ runs[d].result = NullResult
               /\ TransitionActivities(d, "processing") = 0
               /\ <<"pending", "processing">> \notin runs[d].transitions
               /\ RunEnded(d) /\ runs[d].pc # "none"
                    => documents[d].status = "failed"

\* C32: the chat reply path tries the AI-backed strategy first and the
\* keyword-routed fallback second: when the AI call (generateResponse) of a
\* turn fails, the turn goes on to persist the keyword-routed reply, whose
\* content and reasoning log are not empty.
C32_KeywordFallback ==
    [][\A m \in DOMAIN turns :
          (TurnAt(m, "generateResponse") /\ turns'[m].generationFailed)
              => /\ turns'[m].pc = "createReply"
                 /\ turns'[m].content \in
                        {KeywordReply(c).content : c \in ValidContents}
                 /\ turns'[m].reasoningLog > 0]_vars

\* the "upload" Activities stored for Document d
UploadActivities(d) ==
    CopiesIn([userId |-> documents[d].userId, type |-> "upload",
              status |-> "completed", relatedDocumentId |-> d], activities)

DeliveredTo(d, c) ==
    LET n == Len(runs[d].delivered)
        Sent(i) == IF c \in runs[d].delivered[i]
                   THEN <<runs[d].published[i]>> ELSE <<>>
        F[i \in 0..n] == IF i = 0 THEN <<>> ELSE F[i - 1] \o Sent(i)
    IN  F[n]

\* C34: events reach a connection in order: for every Document and every
\* connection that is open and authenticated as the owner during the whole
\* run, the document_update with status processing is sent to it before the
\* one with the terminal status, and each of the two is sent to it at most
\* once.
C34_InOrderPerConnection ==
    \A d \in DOMAIN runs : \A c \in Conns :
        LET sent == DeliveredTo(d, c)
            At_(status) == {i \in DOMAIN sent : sent[i] = status}
            terminal == {i \in DOMAIN sent : sent[i] \in Terminal}
        IN  /\ Cardinality(At_("processing")) <= 1
            /\ Cardinality(terminal) <= 1
            /\ \A i \in At_("processing"), j \in terminal : i < j

\* C35: a connection is associated with at most one user id and the
\* association is set only once: once a connection has been associated with
\* a user by an auth message, no later message on that connection changes
\* its user id to another value or clears it.
C35_UserIdSetOnce ==
    [][\A c \in Conns :
          (/\ ws[c].readyState = "OPEN"
           /\ ws'[c].readyState = "OPEN"
           /\ ws[c].userId # NoUser)
              => ws'[c].userId = ws[c].userId]_vars

\* a chat turn of Conversation cid has been started and has not ended
TurnInFlight(cid) ==
    \E m \in DOMAIN turns :
        /\ messages[m].conversationId = cid
        /\ messages[m].sender = "user"
        /\ ~TurnEnded(m)

\* C36: whenever no chat turn of a Conversation is in flight, its
\* lastMessageAt is not earlier than the timestamp of any Message stored in
\* it: every appended Message, user or assistant, reply or apology, is
\* followed by a bump of lastMessageAt.
C36_LastMessageAtCoversMessages ==
    \A cid \in DOMAIN conversations :
        ~TurnInFlight(cid)
            => \A m \in DOMAIN messages :
                  messages[m].conversationId = cid
                      => messages[m].timestamp <= conversations[cid].lastMessageAt

\* C37: record access is owner-only: the document read never returns a
\* Document whose userId differs from the requesting user, the message list
\* and the message append never return or add Messages in a Conversation
\* whose userId differs from the requesting user, and a request by a
\* non-owner leaves all stored state unchanged.  (The two reads change no
\* stored state for any requester; an append that changes it was requested
\* by the owner of the Conversation it names.)
C37_OwnerOnly ==
    [][/\ res'.route = "document" =>
             /\ UNCHANGED <<storeVars, runs, turns>>
             /\ res'.status = 200 =>
                   /\ res'.body.document = documents[res'.body.id]
                   /\ \A u \in Users, throws \in BOOLEAN :
                         GetDocument(u, res'.body.id, throws)
                             => documents[res'.body.id].userId = u
       /\ res'.route = "messages" =>
             /\ UNCHANGED <<storeVars, runs, turns>>
             /\ res'.status = 200 =>
                   /\ \A i \in DOMAIN res'.body.ids :
                         messages[res'.body.ids[i]].conversationId =
                             res'.body.conversationId
                   /\ \A u \in Users, throwAt \in ReadThrowPoints :
                         GetMessages(u, res'.body.conversationId, throwAt)
                             => conversations[res'.body.conversationId].userId = u
       /\ res'.route = "message" =>
             \/ UNCHANGED <<storeVars, runs, turns>>
             \/ \A u \in Users, cid \in 1..MaxConvs, content \in ContentInputs,
                   throwAt \in PostThrowPoints :
                    PostMessage(u, cid, content, throwAt)
                        => /\ cid \in DOMAIN conversations
                           /\ conversations[cid].userId = u
                           /\ \A m \in DOMAIN messages' \ DOMAIN messages :
                                 messages'[m].conversationId = cid
      ]_vars

\* C37 witness: a user who does not own the Document was just refused it
C37_Witness ==
    /\ res.route = "document"
    /\ res.status = 403
    /\ \E d \in DOMAIN documents : documents[d].status # "pending"

Impacts == {"Low", "Medium", "High", "Critical"}

\* C38: every prediction generateTimeMachinePredictions returns, on the AI
\* path and on the fallback path and for every documentType, has a riskScore
\* in 1..100 and an impact among Low, Medium, High and Critical; the function
\* returns (it never throws), and returns the fallback predictions whenever
\* the AI call or the JSON extraction fails.
C38_PredictionsInRange ==
    (call.fn = "generateTimeMachinePredictions" /\ call.returned)
        => /\ \A i \in DOMAIN call.response.predictions :
                 /\ call.response.predictions[i].riskScore \in 1..100
                 /\ call.response.predictions[i].impact \in Impacts
           /\ call.output.kind # "json"
                 => call.response = getFallbackPredictions(call.documentType)

\* the first well-formed result object of a text, or NoMatch
FirstObject(text) ==
    LET spans == {<<i, j>> \in (DOMAIN text) \X (DOMAIN text) :
                     /\ i < j
                     /\ text[i] = "{A"
                     /\ JsonParses(SubSeq(text, i, j))}
    IN  IF spans = {} THEN NoMatch
        ELSE LET first == CHOOSE x \in spans : \A y \in spans : x[1] <= y[1]
             IN  SubSeq(text, first[1], first[2])

\* C39: the extractor of the AI strategy finds the first well-formed JSON
\* object of the model output when it is wrapped in prose or in a code
\* fence, also when text containing braces follows it; when no object can be
\* parsed the strategy returns a result with only an error-explaining
\* analysis paragraph and empty other lists, and does not throw.  (The raw
\* text that part_004 returns as the analysis is taken as such a paragraph.)
C39_FirstObjectExtracted ==
    (call.fn = "extract" /\ call.returned)
        => IF FirstObject(call.text) # NoMatch
           THEN /\ call.result.kind = "parsed"
                /\ call.result.object = FirstObject(call.text)
           ELSE /\ call.result.kind \in {"parseError", "unable", "rawText"}
                /\ Len(call.result.analysis) = 1
                /\ call.result.risks = <<>>
                /\ call.result.recommendations = <<>>

====
